---- MODULE Spec2Model ----
(***************************************************************************)
(* A model of the LC-3 virtual machine of LC3_VM.c: the register file,     *)
(* the memory array with its memory-mapped keyboard registers, the         *)
(* fetch/decode/execute loop of main, the sixteen opcodes and the six      *)
(* trap routines.  Words are uint16_t: every assignment truncates mod      *)
(* 2^16.  The console is an open terminal: the keys typed and not yet      *)
(* read form the sequence input (end-of-file on stdin is outside the       *)
(* contract of the specification and is not modelled).                     *)
(***************************************************************************)
EXTENDS Integers, Sequences, FiniteSets, TLC

(***************************************************************************)
(* Bounds of the model.                                                    *)
(***************************************************************************)
ImageLen == 2      \* words of the loaded image, placed from PC_START on
MaxSteps == 5      \* instructions the fetch loop may execute
MaxInput == 1      \* keys that arrive on the console
MaxLoads == 2      \* image files named on the command line
MaxPollSteps == 12 \* instructions the polling guest fetches
MaxPollInput == 2  \* keys that arrive while the guest polls

(***************************************************************************)
(* Program constants.                                                      *)
(***************************************************************************)
UINT16_MAX == 65535
MR_KBSR    == 65024      \* 0xFE00
MR_KBDR    == 65026      \* 0xFE02

TRAP_GETC  == 32
TRAP_OUT   == 33
TRAP_PUTS  == 34
TRAP_IN    == 35
TRAP_PUTSP == 36
TRAP_HALT  == 37

R_R0    == 0
R_R7    == 7
R_PC    == 8
R_COND  == 9
R_COUNT == 10

OP_BR   == 0
OP_ADD  == 1
OP_LD   == 2
OP_ST   == 3
OP_JSR  == 4
OP_AND  == 5
OP_LDR  == 6
OP_STR  == 7
OP_RTI  == 8
OP_NOT  == 9
OP_LDI  == 10
OP_STI  == 11
OP_JMP  == 12
OP_RES  == 13
OP_LEA  == 14
OP_TRAP == 15

FL_POS == 1
FL_ZRO == 2
FL_NEG == 4

PC_START == 12288        \* 0x3000

(***************************************************************************)
(* uint16_t arithmetic.                                                    *)
(***************************************************************************)
W16(x) == x % 65536

RECURSIVE BitAnd(_, _)
BitAnd(a, b) ==
  IF a = 0 \/ b = 0 THEN 0
  ELSE (a % 2) * (b % 2) + 2 * BitAnd(a \div 2, b \div 2)

BitOr(a, b) == a + b - BitAnd(a, b)

Shr(x, n) == x \div (2 ^ n)

BitNot16(x) == 65535 - x

\* The low 16 bits of v << n, which are what an assignment to a uint16_t
\* keeps of it.  The shift is done in int: 0xFFFF << 16 does not fit one,
\* and the compilers wrap it to 32 bits (low 16 bits all zero).
RECURSIVE Shl(_, _)
Shl(v, n) == IF n = 0 THEN v ELSE Shl(W16(v * 2), n - 1)

\* sign_extend testing bit bit_count in place of bit bit_count - 1
sign_extend_next_bit(x, bit_count) ==
  IF BitAnd(Shr(x, bit_count), 1) = 1
  THEN BitOr(x, Shl(65535, bit_count))
  ELSE x

\* uint16_t sign_extend(uint16_t x, int bit_count)
sign_extend(x, bit_count) ==
  IF BitAnd(Shr(x, bit_count - 1), 1) = 1
  THEN BitOr(x, Shl(65535, bit_count))
  ELSE x

(***************************************************************************)
(* The memory array, uint16_t memory[UINT16_MAX]: UINT16_MAX cells, with   *)
(* indices 0 .. UINT16_MAX - 1.  It is kept sparse: a function from the    *)
(* indices of the non-zero cells to their values.                          *)
(***************************************************************************)
MemoryCells == UINT16_MAX

InArray(i) == i >= 0 /\ i < MemoryCells

Cell(mem, i) == IF i \in DOMAIN mem THEN mem[i] ELSE 0

Store(mem, i, v) ==
  IF v = 0
  THEN [j \in DOMAIN mem \ {i} |-> mem[j]]
  ELSE [j \in DOMAIN mem \cup {i} |-> IF j = i THEN v ELSE mem[j]]

(***************************************************************************)
(* The loader.  An image file is a sequence of bytes; fread on the         *)
(* little-endian host assembles a word from two bytes, low byte first.     *)
(***************************************************************************)

\* uint16_t swap16(uint16_t x)
swap16(x) == W16(BitOr(x * 256, Shr(x, 8)))

\* The j-th uint16_t that fread finds in the file (j = 0 is the origin).
RawWord(file, j) == file[2 * j + 1] + 256 * file[2 * j + 2]

\* while (read-- > 0) { *p = swap16(*p); p++; } on the words fread stored
\* from memory + origin on; j counts the words done.
RECURSIVE SwapLoop(_, _, _, _, _)
SwapLoop(mem, file, origin, read, j) ==
  IF j >= read THEN mem
  ELSE SwapLoop(Store(mem, origin + j, swap16(RawWord(file, j + 1))),
                file, origin, read, j + 1)

\* void read_image_file(FILE *file), for a file of whole words
read_image_file(mem, file) ==
  LET origin   == swap16(RawWord(file, 0))
      max_read == W16(UINT16_MAX - origin)
      avail    == (Len(file) - 2) \div 2
      read     == IF avail < max_read THEN avail ELSE max_read
  IN  SwapLoop(mem, file, origin, read, 0)

(***************************************************************************)
(* What the build decides where the C code leaves it open.  memory[65535]  *)
(* lies one word beyond the array: a read there yields whatever the linker *)
(* placed after it (u), a write there lands in padding or in the object    *)
(* defined next, reg (w).  Whether plain char is signed (sx) decides the   *)
(* conversion in trap_IN.                                                  *)
(***************************************************************************)
OobVals   == {0, 61477}
OobWrites == {"pad", "reg"}
Builds    == [u : OobVals, w : OobWrites, sx : BOOLEAN]

(***************************************************************************)
(* The console.  Chars are the keys a user may type.  input holds the      *)
(* characters typed and not yet handed to the program, oldest first; the   *)
(* first `buffered' of them have already been read from the terminal into  *)
(* the buffer of the stdin stream, the others wait on file descriptor 0.   *)
(***************************************************************************)
Chars == {65, 200}

\* uint16_t check_key(): select() with a zero timeout on file descriptor 0,
\* which sees the characters the stdin stream has not read yet
check_key(inp, n) == Len(inp) > n

(***************************************************************************)
(* Instruction fields.                                                     *)
(***************************************************************************)
Field(instr, lo, width) == Shr(instr, lo) % (2 ^ width)

Opcode(instr) == Shr(instr, 12)

(***************************************************************************)
(* The procedures of LC3_VM.c act on the machine state                     *)
(*   s = [reg, memory, input, buffered, running, acc, out]                 *)
(* where acc collects the indices of memory[] that were accessed and out   *)
(* the bytes written to stdout.                                            *)
(***************************************************************************)

\* update_flags setting the flag with |= instead of =
update_flags_or(s, r) ==
  IF s.reg[r] = 0
  THEN [s EXCEPT !.reg[R_COND] = BitOr(@, FL_ZRO)]
  ELSE IF Shr(s.reg[r], 15) # 0
  THEN [s EXCEPT !.reg[R_COND] = BitOr(@, FL_NEG)]
  ELSE [s EXCEPT !.reg[R_COND] = BitOr(@, FL_POS)]

\* update_flags with the test of bit 15 left out
update_flags_no_neg(s, r) ==
  IF s.reg[r] = 0 THEN [s EXCEPT !.reg[R_COND] = FL_ZRO]
  ELSE [s EXCEPT !.reg[R_COND] = FL_POS]

\* void update_flags(uint16_t r)
update_flags(s, r) ==
  IF s.reg[r] = 0 THEN [s EXCEPT !.reg[R_COND] = FL_ZRO]
  ELSE IF Shr(s.reg[r], 15) # 0 THEN [s EXCEPT !.reg[R_COND] = FL_NEG]
  ELSE [s EXCEPT !.reg[R_COND] = FL_POS]

\* void mem_write(uint16_t address, uint16_t value)
mem_write(s, address, value, b) ==
  LET s1 == [s EXCEPT !.acc = @ \cup {address}]
  IN  IF InArray(address)
      THEN [s1 EXCEPT !.memory = Store(@, address, value)]
      ELSE IF b.w = "reg" THEN [s1 EXCEPT !.reg[R_R0] = value] ELSE s1

\* getchar(): the next character of the stdin stream.  With its buffer
\* empty the stream first reads all that waits on the terminal.  (The
\* callers do not get here with no character at all: getchar() blocks.)
getchar(s) ==
  [st  |-> [s EXCEPT !.input = Tail(@),
                     !.buffered = IF @ > 0 THEN @ - 1 ELSE Len(s.input) - 1],
   val |-> Head(s.input)]

\* uint16_t mem_read(uint16_t address): the state it leaves and the value
mem_read(s, address, b) ==
  LET s1 == IF address = MR_KBSR
            THEN IF check_key(s.input, s.buffered)
                 THEN LET g == getchar(s)
                      IN  [g.st EXCEPT
                             !.memory = Store(Store(@, MR_KBSR, 32768),
                                              MR_KBDR, g.val),
                             !.acc = @ \cup {MR_KBSR, MR_KBDR}]
                 ELSE [s EXCEPT !.memory = Store(@, MR_KBSR, 0),
                                !.acc = @ \cup {MR_KBSR}]
            ELSE s
  IN  [st  |-> [s1 EXCEPT !.acc = @ \cup {address}],
       val |-> IF InArray(address) THEN Cell(s1.memory, address) ELSE b.u]

(***************************************************************************)
(* The opcodes.  reg[R_PC] has been incremented by the fetch already.      *)
(***************************************************************************)

\* op_ADD with imm5 taken without sign extension
op_ADD_zero_ext(s, instr) ==
  LET DR       == Field(instr, 9, 3)
      SR1      == Field(instr, 6, 3)
      imm_flag == Field(instr, 5, 1)
      imm5     == Field(instr, 0, 5)
      SR2      == Field(instr, 0, 3)
  IN  IF imm_flag # 0
      THEN update_flags([s EXCEPT !.reg[DR] = W16(s.reg[SR1] + imm5)], DR)
      ELSE update_flags([s EXCEPT !.reg[DR] = W16(s.reg[SR1] + s.reg[SR2])], DR)

\* void op_ADD(uint16_t instr)
op_ADD(s, instr) ==
  LET DR       == Field(instr, 9, 3)
      SR1      == Field(instr, 6, 3)
      imm_flag == Field(instr, 5, 1)
      imm5     == sign_extend(Field(instr, 0, 5), 5)
      SR2      == Field(instr, 0, 3)
  IN  IF imm_flag # 0
      THEN update_flags([s EXCEPT !.reg[DR] = W16(s.reg[SR1] + imm5)], DR)
      ELSE update_flags([s EXCEPT !.reg[DR] = W16(s.reg[SR1] + s.reg[SR2])], DR)

\* void op_AND(uint16_t instr)
op_AND(s, instr) ==
  LET DR       == Field(instr, 9, 3)
      SR1      == Field(instr, 6, 3)
      imm_flag == Field(instr, 5, 1)
      imm5     == sign_extend(Field(instr, 0, 5), 5)
      SR2      == Field(instr, 0, 3)
  IN  IF imm_flag # 0
      THEN update_flags([s EXCEPT !.reg[DR] = BitAnd(s.reg[SR1], imm5)], DR)
      ELSE update_flags([s EXCEPT !.reg[DR] = BitAnd(s.reg[SR1], s.reg[SR2])], DR)

\* void op_NOT(uint16_t instr)
op_NOT(s, instr) ==
  LET DR == Field(instr, 9, 3)
      SR == Field(instr, 6, 3)
  IN  update_flags([s EXCEPT !.reg[DR] = BitNot16(s.reg[SR])], DR)

\* void op_BR(uint16_t instr)
op_BR(s, instr) ==
  LET PC_offset == sign_extend(Field(instr, 0, 9), 9)
      cond_flag == Field(instr, 9, 3)
  IN  IF BitAnd(cond_flag, s.reg[R_COND]) # 0
      THEN [s EXCEPT !.reg[R_PC] = W16(@ + PC_offset)]
      ELSE s

\* void op_JMP(uint16_t instr)
op_JMP(s, instr) ==
  LET BaseR == Field(instr, 6, 3)
  IN  [s EXCEPT !.reg[R_PC] = s.reg[BaseR]]

\* op_JSR reading BaseR before R7 is saved
op_JSR_base_first(s, instr) ==
  LET PC_offset == sign_extend(Field(instr, 0, 11), 11)
      BaseR     == Field(instr, 6, 3)
  IN  IF Field(instr, 11, 1) # 0
      THEN [s EXCEPT !.reg[R_R7] = s.reg[R_PC],
                     !.reg[R_PC] = W16(s.reg[R_PC] + PC_offset)]
      ELSE [s EXCEPT !.reg[R_R7] = s.reg[R_PC],
                     !.reg[R_PC] = s.reg[BaseR]]

\* void op_JSR(uint16_t instr)
op_JSR(s, instr) ==
  LET s1        == [s EXCEPT !.reg[R_R7] = s.reg[R_PC]]
      PC_offset == sign_extend(Field(instr, 0, 11), 11)
      BaseR     == Field(instr, 6, 3)
  IN  IF Field(instr, 11, 1) # 0
      THEN [s1 EXCEPT !.reg[R_PC] = W16(@ + PC_offset)]
      ELSE [s1 EXCEPT !.reg[R_PC] = s1.reg[BaseR]]

\* void op_LD(uint16_t instr)
op_LD(s, instr, b) ==
  LET DR        == Field(instr, 9, 3)
      PC_offset == sign_extend(Field(instr, 0, 9), 9)
      r         == mem_read(s, W16(s.reg[R_PC] + PC_offset), b)
  IN  update_flags([r.st EXCEPT !.reg[DR] = r.val], DR)

\* void op_LDI(uint16_t instr)
op_LDI(s, instr, b) ==
  LET DR        == Field(instr, 9, 3)
      PC_offset == sign_extend(Field(instr, 0, 9), 9)
      r1        == mem_read(s, W16(s.reg[R_PC] + PC_offset), b)
      r2        == mem_read(r1.st, r1.val, b)
  IN  update_flags([r2.st EXCEPT !.reg[DR] = r2.val], DR)

\* void op_LDR(uint16_t instr)
op_LDR(s, instr, b) ==
  LET DR     == Field(instr, 9, 3)
      BaseR  == Field(instr, 6, 3)
      offset == sign_extend(Field(instr, 0, 6), 6)
      r      == mem_read(s, W16(s.reg[BaseR] + offset), b)
  IN  update_flags([r.st EXCEPT !.reg[DR] = r.val], DR)

\* void op_LEA(uint16_t instr)
op_LEA(s, instr) ==
  LET DR        == Field(instr, 9, 3)
      PC_offset == sign_extend(Field(instr, 0, 9), 9)
  IN  update_flags([s EXCEPT !.reg[DR] = W16(s.reg[R_PC] + PC_offset)], DR)

\* void op_ST(uint16_t instr)
op_ST(s, instr, b) ==
  LET SR        == Field(instr, 9, 3)
      PC_offset == sign_extend(Field(instr, 0, 9), 9)
  IN  mem_write(s, W16(s.reg[R_PC] + PC_offset), s.reg[SR], b)

\* void op_STI(uint16_t instr)
op_STI(s, instr, b) ==
  LET SR        == Field(instr, 9, 3)
      PC_offset == sign_extend(Field(instr, 0, 9), 9)
      r         == mem_read(s, W16(s.reg[R_PC] + PC_offset), b)
  IN  mem_write(r.st, r.val, r.st.reg[SR], b)

\* void op_STR(uint16_t instr)
op_STR(s, instr, b) ==
  LET SR     == Field(instr, 9, 3)
      BaseR  == Field(instr, 6, 3)
      offset == sign_extend(Field(instr, 0, 6), 6)
  IN  mem_write(s, W16(s.reg[BaseR] + offset), s.reg[SR], b)

(***************************************************************************)
(* The trap routines.  putc((char) x, stdout) writes the low byte of x.    *)
(***************************************************************************)
Byte(x) == x % 256

Prompt == <<69, 110, 116, 101, 114, 32, 97, 32, 99, 104, 97, 114, 97, 99,
            116, 101, 114, 58, 32>>               \* "Enter a character: "

HaltText == <<72, 65, 76, 84, 10>>                \* puts("HALT")

\* trap_GETC followed by update_flags(R_R0)
trap_GETC_sets_flags(s) ==
  LET g == getchar(s)
  IN  update_flags([g.st EXCEPT !.reg[R_R0] = g.val], R_R0)

\* void trap_GETC(): getchar() blocks until a key is there
trap_GETC(s) ==
  LET g == getchar(s)
  IN  [g.st EXCEPT !.reg[R_R0] = g.val]

\* void trap_OUT()
trap_OUT(s) ==
  [s EXCEPT !.out = Append(@, Byte(s.reg[R_R0]))]

\* The loop of trap_PUTS with c == memory + i.  The pointer is not wrapped:
\* c++ steps from memory[65534] to memory[65535] and on to memory[65536].
\* Beyond the array the walk is followed for one word: a non-zero word there
\* is printed and the word after it is read (and taken to end the string).
RECURSIVE PutsLoop(_, _, _)
PutsLoop(s, i, b) ==
  LET w  == IF InArray(i) THEN Cell(s.memory, i) ELSE b.u
      s1 == [s EXCEPT !.acc = @ \cup {i}]
  IN  IF w = 0 THEN s1
      ELSE IF ~InArray(i)
      THEN [s1 EXCEPT !.out = Append(@, Byte(w)), !.acc = @ \cup {i + 1}]
      ELSE PutsLoop([s1 EXCEPT !.out = Append(@, Byte(w))], i + 1, b)

\* void trap_PUTS()
trap_PUTS(s, b) == PutsLoop(s, s.reg[R_R0], b)

\* void trap_IN(): char c = getchar(); reg[R_R0] = (uint16_t) c
trap_IN(s, b) ==
  LET g  == getchar(s)
      c  == g.val
      r0 == IF b.sx /\ c >= 128 THEN W16(c - 256) ELSE c
  IN  [g.st EXCEPT !.reg[R_R0] = r0, !.out = @ \o Prompt \o <<c>>]

\* The loop of trap_PUTSP with c == memory + i.
RECURSIVE PutspLoop(_, _, _)
PutspLoop(s, i, b) ==
  LET w  == IF InArray(i) THEN Cell(s.memory, i) ELSE b.u
      s1 == [s EXCEPT !.acc = @ \cup {i}]
      s2 == [s1 EXCEPT !.out = Append(@, Byte(w))]
      s3 == [s2 EXCEPT !.out = Append(@, Byte(Shr(w, 8)))]
  IN  IF w = 0 THEN s1
      ELSE IF Shr(w, 8) = 0 THEN s2
      ELSE IF ~InArray(i) THEN [s3 EXCEPT !.acc = @ \cup {i + 1}]
      ELSE PutspLoop(s3, i + 1, b)

\* void trap_PUTSP()
trap_PUTSP(s, b) == PutspLoop(s, s.reg[R_R0], b)

\* trap_HALT without the assignment to *running
trap_HALT_keeps_running(s) ==
  [s EXCEPT !.out = @ \o HaltText]

\* void trap_HALT(int *running)
trap_HALT(s) ==
  [s EXCEPT !.out = @ \o HaltText, !.running = FALSE]

\* The trap switch entered through op_TRAP: reg[R_R7] = reg[R_PC];
\* reg[R_PC] = mem_read(trap_vect)
TrapSwitch_via_op_TRAP(s, instr, b) ==
  LET r  == mem_read([s EXCEPT !.reg[R_R7] = s.reg[R_PC]],
                     sign_extend(BitAnd(instr, 255), 8), b)
      s1 == [r.st EXCEPT !.reg[R_PC] = r.val]
      v  == BitAnd(instr, 255)
  IN  CASE v = TRAP_GETC  -> trap_GETC(s1)
        [] v = TRAP_OUT   -> trap_OUT(s1)
        [] v = TRAP_HALT  -> trap_HALT(s1)
        [] OTHER          -> s1

\* The trap switch with a default case that stops the machine
TrapSwitch_default_stops(s, instr, b) ==
  LET v == BitAnd(instr, 255)
  IN  CASE v = TRAP_GETC  -> trap_GETC(s)
        [] v = TRAP_OUT   -> trap_OUT(s)
        [] v = TRAP_PUTS  -> trap_PUTS(s, b)
        [] v = TRAP_IN    -> trap_IN(s, b)
        [] v = TRAP_PUTSP -> trap_PUTSP(s, b)
        [] v = TRAP_HALT  -> trap_HALT(s)
        [] OTHER          -> [s EXCEPT !.running = FALSE]

(***************************************************************************)
(* main: the inner switch (instr & 0xFF) of case OP_TRAP.  op_TRAP is      *)
(* never called.                                                           *)
(***************************************************************************)
TrapSwitch(s, instr, b) ==
  LET v == BitAnd(instr, 255)
  IN  CASE v = TRAP_GETC  -> trap_GETC(s)
        [] v = TRAP_OUT   -> trap_OUT(s)
        [] v = TRAP_PUTS  -> trap_PUTS(s, b)
        [] v = TRAP_IN    -> trap_IN(s, b)
        [] v = TRAP_PUTSP -> trap_PUTSP(s, b)
        [] v = TRAP_HALT  -> trap_HALT(s)
        [] OTHER          -> s

\* main: switch (op), the cases that return to the loop
OpSwitch(s, instr, b) ==
  LET op == Opcode(instr)
  IN  CASE op = OP_ADD  -> op_ADD(s, instr)
        [] op = OP_AND  -> op_AND(s, instr)
        [] op = OP_NOT  -> op_NOT(s, instr)
        [] op = OP_BR   -> op_BR(s, instr)
        [] op = OP_JMP  -> op_JMP(s, instr)
        [] op = OP_JSR  -> op_JSR(s, instr)
        [] op = OP_LD   -> op_LD(s, instr, b)
        [] op = OP_LDI  -> op_LDI(s, instr, b)
        [] op = OP_LDR  -> op_LDR(s, instr, b)
        [] op = OP_LEA  -> op_LEA(s, instr)
        [] op = OP_ST   -> op_ST(s, instr, b)
        [] op = OP_STI  -> op_STI(s, instr, b)
        [] op = OP_STR  -> op_STR(s, instr, b)
        [] op = OP_TRAP -> TrapSwitch(s, instr, b)
        [] OTHER        -> s

\* the switch with case OP_RTI missing from the aborting cases
Aborts_only_RES(instr) == Opcode(instr) = OP_RES

\* main: case OP_RES, case OP_RTI, default: abort()
Aborts(instr) == Opcode(instr) \notin
  {OP_ADD, OP_AND, OP_NOT, OP_BR, OP_JMP, OP_JSR, OP_LD, OP_LDI, OP_LDR,
   OP_LEA, OP_ST, OP_STI, OP_STR, OP_TRAP}

\* getchar() in trap_GETC and trap_IN waits for a key
WaitsForKey(instr, inp) ==
  /\ Opcode(instr) = OP_TRAP
  /\ BitAnd(instr, 255) \in {TRAP_GETC, TRAP_IN}
  /\ inp = <<>>

(***************************************************************************)
(* The state.  reg, memory and running are the program's; input and        *)
(* buffered are the console; pos is the position of main in its loop (at   *)
(* the fetch, or at the switch with instr fetched); aborted tells that     *)
(* abort() was called.  acc and out record the memory indices accessed and *)
(* the bytes written by the latest fetch or instruction; iaddr is the      *)
(* address instr was fetched from and last the instruction executed before *)
(* instr; steps and typed count the instructions fetched and the keys      *)
(* typed; image is the image file being loaded (its bytes), used while     *)
(* main loads the images; call is a call of sign_extend taken on its own:  *)
(* its arguments and the value it returns.                                 *)
(***************************************************************************)
VARIABLES reg, memory, running, aborted, input, pos, instr, iaddr, last,
          acc, out, steps, typed, image, call, buffered

vars == <<reg, memory, running, aborted, input, pos, instr, iaddr, last,
          acc, out, steps, typed, image, call, buffered>>

\* No call of sign_extend is being looked at.
NoCall == [x |-> 0, bit_count |-> 0, ret |-> 0]

\* The words an image may hold: instructions and data.
ImageWords ==
  { 4735,    \* 0x127F ADD  R1, R1, #-1
    4673,    \* 0x1241 ADD  R1, R1, R1
    21615,   \* 0x546F AND  R2, R1, #15
    20551,   \* 0x5047 AND  R0, R1, R7
    37503,   \* 0x927F NOT  R1, R1
    36927,   \* 0x903F NOT  R0, R0
    8704,    \* 0x2200 LD   R1, #0
    40960,   \* 0xA000 LDI  R0, #0
    24640,   \* 0x6040 LDR  R0, R1, #0
    25153,   \* 0x6241 LDR  R1, R1, #1
    58367,   \* 0xE3FF LEA  R1, #-1
    12800,   \* 0x3200 ST   R1, #0
    45568,   \* 0xB200 STI  R1, #0
    29248,   \* 0x7240 STR  R1, R1, #0
    3585,    \* 0x0E01 BRnzp #1
    1,       \* 0x0001 BR (mask 000) #1
    1534,    \* 0x05FE BRz  #-2
    2558,    \* 0x09FE BRn  #-2
    49216,   \* 0xC040 JMP  R1
    49600,   \* 0xC1C0 JMP  R7 (RET)
    18432,   \* 0x4800 JSR  #0
    16448,   \* 0x4040 JSRR R1
    16832,   \* 0x41C0 JSRR R7
    61472,   \* 0xF020 TRAP x20 GETC
    61473,   \* 0xF021 TRAP x21 OUT
    61474,   \* 0xF022 TRAP x22 PUTS
    61475,   \* 0xF023 TRAP x23 IN
    61476,   \* 0xF024 TRAP x24 PUTSP
    61477,   \* 0xF025 TRAP x25 HALT
    61440,   \* 0xF000 TRAP x00 (no routine)
    32768,   \* 0x8000 RTI
    53248,   \* 0xD000 RES
    65024,   \* 0xFE00 the address of KBSR (as an instruction: TRAP x00)
    65026,   \* 0xFE02 the address of KBDR (as an instruction: TRAP x02)
    65535 }  \* 0xFFFF the last address (as an instruction: TRAP xFF)

\* The image read_image_file leaves in memory: ImageLen words from PC_START on
ImageAddrs == PC_START .. (PC_START + ImageLen - 1)

\* The machine state the procedures act on
Machine ==
  [reg |-> reg, memory |-> memory, input |-> input, buffered |-> buffered,
   running |-> running,
   acc |-> {}, out |-> <<>>]

\* main, up to the loop: reg and memory are zero-initialised statics, the
\* images are loaded, reg[R_PC] = PC_START, running = 1
Init ==
  /\ memory \in [ImageAddrs -> ImageWords]
  /\ reg = [r \in 0 .. (R_COUNT - 1) |-> IF r = R_PC THEN PC_START ELSE 0]
  /\ running = TRUE
  /\ aborted = FALSE
  /\ input = <<>>
  /\ buffered = 0
  /\ pos = "fetch"
  /\ instr = 0
  /\ iaddr = 0
  /\ last = [instr |-> 0, addr |-> 0]
  /\ acc = {}
  /\ out = <<>>
  /\ steps = 0
  /\ typed = 0
  /\ image = <<>>
  /\ call = NoCall

\* while (running) { uint16_t instr = mem_read(reg[R_PC]++);
FetchWithin(limit) ==
  /\ pos = "fetch"
  /\ running
  /\ ~aborted
  /\ steps < limit
  /\ \E r \in { mem_read([Machine EXCEPT !.reg[R_PC] = W16(@ + 1)],
                           reg[R_PC], b) : b \in Builds } :
       /\ instr' = r.val
       /\ reg' = r.st.reg
       /\ memory' = r.st.memory
       /\ input' = r.st.input
       /\ buffered' = r.st.buffered
       /\ acc' = r.st.acc
       /\ out' = r.st.out
  /\ iaddr' = reg[R_PC]
  /\ last' = [instr |-> instr, addr |-> iaddr]
  /\ pos' = "exec"
  /\ steps' = steps + 1
  /\ UNCHANGED <<running, aborted, typed, image, call>>

Fetch == FetchWithin(MaxSteps)

\* uint16_t op = instr >> 12; switch (op) { ... } }
Execute ==
  /\ pos = "exec"
  /\ ~WaitsForKey(instr, input)
  /\ IF Aborts(instr)
     THEN /\ aborted' = TRUE
          /\ acc' = {}
          /\ out' = <<>>
          /\ UNCHANGED <<reg, memory, input, buffered, running>>
     ELSE /\ \E s \in { OpSwitch(Machine, instr, b) : b \in Builds } :
               /\ reg' = s.reg
               /\ memory' = s.memory
               /\ input' = s.input
               /\ buffered' = s.buffered
               /\ running' = s.running
               /\ acc' = s.acc
               /\ out' = s.out
          /\ UNCHANGED aborted
  /\ pos' = "fetch"
  /\ UNCHANGED <<instr, iaddr, last, steps, typed, image, call>>

\* A key is typed on the console.
KeyArrives ==
  /\ typed < MaxInput
  /\ \E c \in Chars : input' = Append(input, c)
  /\ typed' = typed + 1
  /\ UNCHANGED <<reg, memory, running, aborted, pos, instr, iaddr, last,
                 acc, out, steps, image, call, buffered>>

Next == Fetch \/ Execute \/ KeyArrives

Spec == Init /\ [][Next]_vars

(***************************************************************************)
(* The loading phase of main on its own: for (i = 1; i < argc; i++)        *)
(* read_image(argv[i]).  steps counts the files loaded.                    *)
(***************************************************************************)

\* The bytes of an image file: the origin and the data words, big-endian.
RECURSIVE FileBytes(_)
FileBytes(ws) ==
  IF ws = <<>> THEN <<>>
  ELSE <<Head(ws) \div 256, Head(ws) % 256>> \o FileBytes(Tail(ws))

LoadOrigins == {PC_START, MR_KBSR, 65534, 65535}

LoadWords == {4660, 255, 61477}      \* 0x1234, 0x00FF, 0xF025

\* The image files: an origin followed by up to two data words.
LoadFiles ==
  { FileBytes(<<o>> \o ws) :
      o \in LoadOrigins,
      ws \in {<<>>} \cup {<<a>> : a \in LoadWords}
                    \cup {<<a, c>> : a \in LoadWords, c \in LoadWords} }

\* main before the first image is read: the statics are zero
InitLoad ==
  /\ memory = [j \in {} |-> 0]
  /\ reg = [r \in 0 .. (R_COUNT - 1) |-> 0]
  /\ running = TRUE
  /\ aborted = FALSE
  /\ input = <<>>
  /\ buffered = 0
  /\ pos = "load"
  /\ instr = 0
  /\ iaddr = 0
  /\ last = [instr |-> 0, addr |-> 0]
  /\ acc = {}
  /\ out = <<>>
  /\ steps = 0
  /\ typed = 0
  /\ image = <<>>
  /\ call = NoCall

\* read_image(argv[i]) for a file that opens
LoadImage ==
  /\ pos = "load"
  /\ steps < MaxLoads
  /\ \E f \in LoadFiles :
       /\ image' = f
       /\ memory' = read_image_file(memory, f)
  /\ steps' = steps + 1
  /\ UNCHANGED <<reg, running, aborted, input, pos, instr, iaddr, last,
                 acc, out, typed, call, buffered>>

SpecLoad == InitLoad /\ [][LoadImage]_vars

(***************************************************************************)
(* Vocabulary of the properties.                                           *)
(***************************************************************************)

\* The instruction in instr has been executed (main is back at the fetch).
Executed == pos = "fetch" /\ steps > 0

\* This step executes the instruction in instr.
ExecStep == pos = "exec" /\ pos' = "fetch"

\* The n-bit field x read as a two's-complement number, as a 16-bit word.
SExt(x, n) == IF x >= 2 ^ (n - 1) THEN x + 65536 - 2 ^ n ELSE x

\* The flag that tells the sign of the 16-bit word v.
FlagOf(v) == IF v = 0 THEN FL_ZRO ELSE IF v >= 32768 THEN FL_NEG ELSE FL_POS

\* The address that follows the instruction in instr (the post-fetch PC).
NextAddr == W16(iaddr + 1)

FlagOps == {OP_ADD, OP_AND, OP_NOT, OP_LD, OP_LDI, OP_LDR, OP_LEA}

GeneralRegs == R_R0 .. R_R7

IsTrap(i, v) == Opcode(i) = OP_TRAP /\ i % 256 = v

(***************************************************************************)
(* C1.  After ADD, AND, NOT, LD, LDI, LDR or LEA has executed, COND is     *)
(* exactly the one flag that tells the sign of the new value of DR: Z if   *)
(* it is 0, N if its bit 15 is set, P otherwise.                           *)
(***************************************************************************)
C1_FlagsFollowDR ==
  (Executed /\ Opcode(instr) \in FlagOps)
    => /\ reg[R_COND] \in {FL_NEG, FL_ZRO, FL_POS}
       /\ reg[R_COND] = FlagOf(reg[(instr \div 512) % 8])

\* A load has set N from a word read from memory.
C1_Witness ==
  /\ Executed
  /\ Opcode(instr) = OP_LD
  /\ reg[1] >= 32768
  /\ reg[R_COND] = FL_NEG

(***************************************************************************)
(* C2.  A BR whose mask is 0b111 always takes the branch (PC becomes the   *)
(* post-fetch PC plus the sign-extended PCoffset9), and a BR whose mask is *)
(* 0b000 leaves PC at the post-fetch value.                                *)
(***************************************************************************)
C2_BranchMasks ==
  (Executed /\ Opcode(instr) = OP_BR)
    => /\ (instr \div 512) % 8 = 7
            => reg[R_PC] = W16(NextAddr + SExt(instr % 512, 9))
       /\ (instr \div 512) % 8 = 0
            => reg[R_PC] = NextAddr

(***************************************************************************)
(* C3.  After a TRAP with a vector in 0x20 .. 0x25 has executed, R7 holds  *)
(* the address that follows the TRAP.                                      *)
(***************************************************************************)
C3_TrapSavesReturn ==
  (Executed /\ Opcode(instr) = OP_TRAP /\ instr % 256 \in TRAP_GETC .. TRAP_HALT)
    => reg[R_R7] = NextAddr

(***************************************************************************)
(* C4.  Executing TRAP x25 (HALT) clears the running flag; once it is      *)
(* clear nothing is fetched or executed any more and registers and memory  *)
(* keep their values; and no other instruction clears the flag.            *)
(***************************************************************************)
C4_HaltStopsTheLoop ==
  [][ /\ (ExecStep /\ IsTrap(instr, TRAP_HALT)) => ~running'
      /\ ~running => /\ reg' = reg
                     /\ memory' = memory
                     /\ running' = running
                     /\ <<pos, instr, steps>>' = <<pos, instr, steps>>
      /\ (running /\ ~running') => (ExecStep /\ IsTrap(instr, TRAP_HALT))
    ]_vars

\* HALT has executed after an instruction that changed a register, with a
\* key typed and the step budget not used up.
C4_Witness ==
  /\ Executed
  /\ IsTrap(instr, TRAP_HALT)
  /\ ~running
  /\ reg[1] = 65535
  /\ steps < MaxSteps
  /\ typed = 1

(***************************************************************************)
(* C5.  Executing a word whose opcode is RTI (0x8) or RES (0xD) aborts:    *)
(* the machine is then aborted with the running flag still set (it is not  *)
(* the exit HALT takes), the instruction changes no register, COND or      *)
(* memory cell, and nothing is fetched or executed afterwards.             *)
(***************************************************************************)
C5_IllegalOpcodeAborts ==
  [][ /\ (ExecStep /\ Opcode(instr) \in {OP_RTI, OP_RES})
           => /\ aborted'
              /\ running'
              /\ reg' = reg
              /\ memory' = memory
      /\ aborted => /\ reg' = reg
                    /\ memory' = memory
                    /\ <<aborted, running>>' = <<aborted, running>>
                    /\ <<pos, instr, steps>>' = <<pos, instr, steps>>
    ]_vars

\* RTI was fetched and executed after a register and the flags had changed.
C5_Witness ==
  /\ Executed
  /\ Opcode(instr) = OP_RTI
  /\ aborted
  /\ running
  /\ reg[1] = 65535
  /\ reg[R_COND] = FL_NEG
  /\ steps < MaxSteps

(***************************************************************************)
(* C6.  Every fetch, load and store accesses a cell inside the memory      *)
(* array, for every 16-bit address including 0xFFFF.                       *)
(***************************************************************************)
C6_AccessesInsideArray ==
  \A i \in acc : i \in 0 .. 65535 /\ InArray(i)

\* Addresses at which mem_read is probed: the keyboard registers, their
\* neighbours, the image and both ends of the address space.
ProbeAddrs ==
  {0, PC_START, PC_START + 1, MR_KBSR - 1, MR_KBSR, MR_KBSR + 1, MR_KBDR,
   65534, 65535}

(***************************************************************************)
(* C7.  mem_read(0xFE00) polls the console: with a key available it sets   *)
(* memory[0xFE00] to 0x8000 and memory[0xFE02] to the next character and   *)
(* consumes that one character; with none it sets memory[0xFE00] to 0 and  *)
(* consumes nothing; it returns memory[0xFE00].  mem_read of any other     *)
(* address returns memory[addr] and changes neither memory nor the input.  *)
(***************************************************************************)
C7_MemRead ==
  \A b \in Builds :
    /\ LET k == mem_read(Machine, MR_KBSR, b)
       IN  /\ input # <<>>
                => /\ k.st.memory =
                        Store(Store(memory, MR_KBSR, 32768), MR_KBDR, Head(input))
                   /\ k.st.input = Tail(input)
                   /\ k.val = 32768
           /\ input = <<>>
                => /\ k.st.memory = Store(memory, MR_KBSR, 0)
                   /\ k.st.input = input
                   /\ k.val = 0
    /\ \A a \in ProbeAddrs \ {MR_KBSR} :
         LET r == mem_read(Machine, a, b)
         IN  /\ r.val = Cell(memory, a)
             /\ r.st.memory = memory
             /\ r.st.input = input

(***************************************************************************)
(* C8.  With PC the address after the instruction and sums mod 2^16:       *)
(* after LD, DR = memory[PC + PCoffset9]; after LDR, DR = memory[BaseR +   *)
(* offset6] with BaseR's value before the instruction; after LDI, DR =     *)
(* memory[memory[PC + PCoffset9]]; after LEA, DR = PC + PCoffset9.         *)
(***************************************************************************)
C8_Loads ==
  [][ ExecStep =>
        LET op    == Opcode(instr)
            DR    == (instr \div 512) % 8
            BaseR == (instr \div 64) % 8
            pcrel == W16(reg[R_PC] + SExt(instr % 512, 9))
            based == W16(reg[BaseR] + SExt(instr % 64, 6))
        IN  /\ op = OP_LD  => reg'[DR] = Cell(memory', pcrel)
            /\ op = OP_LDR => reg'[DR] = Cell(memory', based)
            /\ op = OP_LDI => reg'[DR] = Cell(memory', Cell(memory', pcrel))
            /\ op = OP_LEA => reg'[DR] = pcrel
    ]_vars

(***************************************************************************)
(* C9.  After ST, STR or STI the cell at the effective address (ST: PC +   *)
(* PCoffset9; STR: BaseR + offset6; STI: memory[PC + PCoffset9]) holds the *)
(* value of SR, every other memory cell is unchanged, and R0..R7 and COND  *)
(* are unchanged.                                                          *)
(***************************************************************************)
C9_Stores ==
  [][ (ExecStep /\ Opcode(instr) \in {OP_ST, OP_STR, OP_STI}) =>
        LET op    == Opcode(instr)
            SR    == (instr \div 512) % 8
            BaseR == (instr \div 64) % 8
            pcrel == W16(reg[R_PC] + SExt(instr % 512, 9))
            based == W16(reg[BaseR] + SExt(instr % 64, 6))
            ea    == IF op = OP_ST THEN pcrel
                     ELSE IF op = OP_STR THEN based
                     ELSE Cell(memory, pcrel)
        IN  /\ Cell(memory', ea) = reg[SR]
            /\ \A a \in (DOMAIN memory \cup DOMAIN memory') \ {ea} :
                 Cell(memory', a) = Cell(memory, a)
            /\ \A r \in GeneralRegs \cup {R_COND} : reg'[r] = reg[r]
    ]_vars

Bits(x) == {i \in 0 .. 15 : (x \div 2 ^ i) % 2 = 1}

(***************************************************************************)
(* C11.  ADD sets DR to (SR1 + op2) mod 2^16 and AND sets DR to the        *)
(* bitwise AND of SR1 and op2, where op2 is the sign-extended imm5 when    *)
(* bit 5 is set and SR2 otherwise; NOT sets DR to the 16-bit complement of *)
(* SR.  The operands are the values before the instruction (also when DR = *)
(* SR1 = SR2), and nothing but DR and COND changes.                        *)
(***************************************************************************)
C11_Arithmetic ==
  [][ (ExecStep /\ Opcode(instr) \in {OP_ADD, OP_AND, OP_NOT}) =>
        LET op  == Opcode(instr)
            DR  == (instr \div 512) % 8
            SR1 == (instr \div 64) % 8
            op2 == IF (instr \div 32) % 2 = 1
                   THEN SExt(instr % 32, 5)
                   ELSE reg[instr % 8]
        IN  /\ reg'[DR] \in 0 .. 65535
            /\ op = OP_ADD => reg'[DR] = (reg[SR1] + op2) % 65536
            /\ op = OP_AND => Bits(reg'[DR]) = Bits(reg[SR1]) \cap Bits(op2)
            /\ op = OP_NOT => Bits(reg'[DR]) = (0 .. 15) \ Bits(reg[SR1])
            /\ \A r \in (0 .. 8) \ {DR} : reg'[r] = reg[r]
            /\ memory' = memory
            /\ input' = input
            /\ out' = <<>>
            /\ <<running, aborted>>' = <<running, aborted>>
    ]_vars

\* ADD R1, R1, R1 has doubled 0xFFFF to 0xFFFE (a sum that wraps, with
\* DR = SR1 = SR2).
C11_Witness ==
  /\ Executed
  /\ instr = 4673
  /\ Opcode(last.instr) = OP_ADD
  /\ reg[1] = 65534
  /\ reg[R_COND] = FL_NEG

(***************************************************************************)
(* C12.  Every instruction other than ADD, AND, NOT, LD, LDI, LDR and LEA  *)
(* (BR taken or not, ST, STI, STR, JSR/JSRR, JMP and every TRAP) leaves    *)
(* COND unchanged.                                                         *)
(***************************************************************************)
C12_OthersKeepCond ==
  [][ (ExecStep /\ Opcode(instr) \notin FlagOps)
        => reg'[R_COND] = reg[R_COND]
    ]_vars

\* GETC has put a key into R0 while COND still tells the sign of an
\* earlier result.
C12_Witness ==
  /\ Executed
  /\ IsTrap(instr, TRAP_GETC)
  /\ reg[R_R0] = 65
  /\ reg[R_COND] = FL_NEG

(***************************************************************************)
(* C13.  In every state reachable from startup COND is one of 0, 1, 2, 4   *)
(* (at most one of the low three bits, no higher bit); and once a          *)
(* flag-updating instruction has executed COND has exactly one bit set in  *)
(* every later state.                                                      *)
(***************************************************************************)
C13_CondOneHot ==
  [][ /\ reg[R_COND] \in {0, FL_POS, FL_ZRO, FL_NEG}
      /\ reg'[R_COND] \in {0, FL_POS, FL_ZRO, FL_NEG}
      /\ (ExecStep /\ Opcode(instr) \in FlagOps)
           => reg'[R_COND] \in {FL_POS, FL_ZRO, FL_NEG}
      /\ reg[R_COND] \in {FL_POS, FL_ZRO, FL_NEG}
           => reg'[R_COND] \in {FL_POS, FL_ZRO, FL_NEG}
    ]_vars

\* Two flag-updating instructions with results of different sign have
\* executed one after the other; only the flag of the second is set.
C13_Witness ==
  /\ Executed
  /\ steps >= 2
  /\ Opcode(last.instr) = OP_ADD
  /\ Opcode(instr) = OP_AND
  /\ reg[1] >= 32768
  /\ reg[R_COND] = FL_POS

\* The instruction i is a TRAP with one of the vectors 0x20 .. 0x24.
IsServiceTrap(i) ==
  Opcode(i) = OP_TRAP /\ i % 256 \in TRAP_GETC .. TRAP_PUTSP

(***************************************************************************)
(* C14.  A TRAP with a vector in 0x20 .. 0x24 does not divert PC: after    *)
(* the routine PC is the address of the TRAP plus one, and the next fetch  *)
(* is made from that address.                                              *)
(***************************************************************************)
C14_TrapFallsThrough ==
  [][ /\ (ExecStep /\ IsServiceTrap(instr))
           => reg'[R_PC] = W16(iaddr + 1)
      /\ (pos = "fetch" /\ pos' = "exec" /\ steps >= 1 /\ IsServiceTrap(instr))
           => /\ iaddr' = W16(iaddr + 1)
              /\ reg'[R_PC] = W16(iaddr + 2)
    ]_vars

\* The word behind a TRAP x21 (OUT) has been fetched as the next
\* instruction.
C14_Witness ==
  /\ pos = "exec"
  /\ steps >= 2
  /\ IsTrap(last.instr, TRAP_OUT)
  /\ iaddr = W16(last.addr + 1)
  /\ instr = Cell(memory, iaddr)
  /\ instr # 0

(***************************************************************************)
(* C15.  All address arithmetic wraps modulo 2^16 and never leaves the     *)
(* address space 0x0000 .. 0xFFFF: PC + offset, BaseR + offset, the        *)
(* pointer read by LDI/STI, and the successive addresses R0, R0+1, ...     *)
(* that PUTS and PUTSP scan (the address after 0xFFFF is 0x0000).          *)
(***************************************************************************)
C15_AddressesWrap ==
  /\ \A i \in acc : i \in 0 .. 65535
  /\ (Executed /\ (IsTrap(instr, TRAP_PUTS) \/ IsTrap(instr, TRAP_PUTSP)))
       => \E n \in 0 .. Cardinality(acc) :
            acc = {W16(reg[R_R0] + k) : k \in 0 .. n}

(***************************************************************************)
(* sign_extend on its own: one call with arguments drawn from XVals and    *)
(* BitCounts.                                                              *)
(***************************************************************************)

\* 16-bit words with every bit position set and clear under several
\* settings of the bits around it.
XVals ==
  {2 ^ k : k \in 0 .. 15} \cup {2 ^ k - 1 : k \in 0 .. 16}
    \cup {65535 - 2 ^ k : k \in 0 .. 15}
    \cup {21845, 43690, 4660, 61477, 65024}

BitCounts == 1 .. 16

InitSignExtend ==
  /\ memory = [j \in {} |-> 0]
  /\ reg = [r \in 0 .. (R_COUNT - 1) |-> 0]
  /\ running = TRUE
  /\ aborted = FALSE
  /\ input = <<>>
  /\ buffered = 0
  /\ pos = "call"
  /\ instr = 0
  /\ iaddr = 0
  /\ last = [instr |-> 0, addr |-> 0]
  /\ acc = {}
  /\ out = <<>>
  /\ steps = 0
  /\ typed = 0
  /\ image = <<>>
  /\ \E x \in XVals, n \in BitCounts :
       call = [x |-> x, bit_count |-> n, ret |-> 0]

\* uint16_t sign_extend(uint16_t x, int bit_count)
SignExtend ==
  /\ pos = "call"
  /\ call' = [call EXCEPT !.ret = sign_extend(call.x, call.bit_count)]
  /\ pos' = "return"
  /\ UNCHANGED <<reg, memory, running, aborted, input, instr, iaddr, last,
                 acc, out, steps, typed, image, buffered>>

SpecSignExtend == InitSignExtend /\ [][SignExtend]_vars

(***************************************************************************)
(* The machine running a guest that polls the keyboard:                    *)
(*   x3000  LDI R0, x3005    read KBSR                                     *)
(*   x3001  BRzp x3000       bit 15 clear: poll again                      *)
(*   x3002  LDI R1, x3006    read KBDR                                     *)
(*   x3003  ADD R3, R3, #1   count the characters read                     *)
(*   x3004  BRnzp x3000                                                    *)
(*   x3005  xFE00                                                          *)
(*   x3006  xFE02                                                          *)
(* The k-th key typed is PollChars[k].                                     *)
(***************************************************************************)
PollGuest == <<40964, 2046, 41475, 5857, 4091, MR_KBSR, MR_KBDR>>

PollChars == <<65, 66, 67, 68>>

InitPoll ==
  /\ image = FileBytes(<<PC_START>> \o PollGuest)
  /\ memory = read_image_file([j \in {} |-> 0], image)
  /\ reg = [r \in 0 .. (R_COUNT - 1) |-> IF r = R_PC THEN PC_START ELSE 0]
  /\ running = TRUE
  /\ aborted = FALSE
  /\ input = <<>>
  /\ buffered = 0
  /\ pos = "fetch"
  /\ instr = 0
  /\ iaddr = 0
  /\ last = [instr |-> 0, addr |-> 0]
  /\ acc = {}
  /\ out = <<>>
  /\ steps = 0
  /\ typed = 0
  /\ call = NoCall

PollFetch == FetchWithin(MaxPollSteps)

\* The next key is typed on the console.
PollKey ==
  /\ typed < MaxPollInput
  /\ typed < Len(PollChars)
  /\ input' = Append(input, PollChars[typed + 1])
  /\ typed' = typed + 1
  /\ UNCHANGED <<reg, memory, running, aborted, pos, instr, iaddr, last,
                 acc, out, steps, image, call, buffered>>

NextPoll == PollFetch \/ Execute \/ PollKey

SpecPoll == InitPoll /\ [][NextPoll]_vars

\* The i-th data word (i = 0, 1, ...) of the image file, big-endian.
DataWord(file, i) == file[2 * i + 3] * 256 + file[2 * i + 4]

(***************************************************************************)
(* C16.  Loading an image whose first big-endian word is the origin o,     *)
(* followed by k big-endian data words with k <= 65,536 - o, sets          *)
(* memory[o + i] to the i-th data word for every 0 <= i < k and leaves     *)
(* every other memory cell and every register unchanged.                   *)
(***************************************************************************)
C16_ImageLoaded ==
  [][ (pos = "load" /\ steps' = steps + 1) =>
        LET o == image'[1] * 256 + image'[2]
            k == (Len(image') - 2) \div 2
        IN  k <= 65536 - o
              => /\ \A i \in 0 .. (k - 1) :
                      Cell(memory', o + i) = DataWord(image', i)
                 /\ \A a \in (DOMAIN memory \cup DOMAIN memory')
                               \ {o + i : i \in 0 .. (k - 1)} :
                      Cell(memory', a) = Cell(memory, a)
                 /\ reg' = reg
    ]_vars

(***************************************************************************)
(* C17.  For every n in 1..16 and every 16-bit x, sign_extend(x, n) is x   *)
(* when bit n-1 of x is 0, and x with bits n..15 set as well when bit n-1  *)
(* of x is 1; on an x that is an n-bit field this is the 16-bit two's      *)
(* complement word of the field's signed value.                           *)
(***************************************************************************)
C17_SignExtend ==
  pos = "return" =>
    LET x == call.x
        n == call.bit_count
    IN  /\ call.ret \in 0 .. 65535
        /\ (n - 1) \notin Bits(x) => call.ret = x
        /\ (n - 1) \in Bits(x) => Bits(call.ret) = Bits(x) \cup (n .. 15)
        /\ x < 2 ^ n => call.ret = SExt(x, n)

\* A call with bit_count 5 on a word whose bit 4 is set has returned a word
\* that differs from its argument.
C17_Witness ==
  /\ pos = "return"
  /\ 4 \in Bits(call.x)
  /\ call.bit_count = 5
  /\ call.ret # call.x

(***************************************************************************)
(* C18.  JSRR (opcode 0x4, bit 11 clear) with BaseR = R7 reads R7 after it *)
(* has been overwritten with the post-fetch PC: PC ends at the address of  *)
(* the instruction plus one and the old value of R7 is gone.  With any     *)
(* other BaseR, PC ends at the value BaseR held before the instruction.    *)
(***************************************************************************)
C18_JsrrThroughR7 ==
  [][ (ExecStep /\ Opcode(instr) = OP_JSR /\ (instr \div 2048) % 2 = 0) =>
        LET BaseR == (instr \div 64) % 8
        IN  /\ BaseR = R_R7 => /\ reg'[R_PC] = NextAddr
                               /\ reg'[R_R7] = NextAddr
            /\ BaseR # R_R7 => reg'[R_PC] = reg[BaseR]
    ]_vars

\* A JSRR R7 has executed while R7 held the return address of the JSR
\* before it, which is not the address behind the JSRR; PC is behind the
\* JSRR all the same.
C18_Witness ==
  /\ Executed
  /\ steps >= 2
  /\ Opcode(instr) = OP_JSR
  /\ (instr \div 2048) % 2 = 0
  /\ (instr \div 64) % 8 = R_R7
  /\ Opcode(last.instr) = OP_JSR
  /\ W16(last.addr + 1) # NextAddr
  /\ reg[R_PC] = NextAddr
  /\ reg[R_R7] = NextAddr

\* The instruction i is a TRAP with a vector outside 0x20 .. 0x25.
IsUnknownTrap(i) ==
  Opcode(i) = OP_TRAP /\ i % 256 \notin TRAP_GETC .. TRAP_HALT

(***************************************************************************)
(* C19.  A TRAP whose low 8 bits are not in 0x20 .. 0x25 is ignored: apart *)
(* from the fetch increment of PC it changes no register (R7 and COND      *)
(* included) and no memory cell, prints nothing, consumes no input, and    *)
(* the machine goes on with the instruction that follows.                  *)
(***************************************************************************)
C19_UnknownTrapIgnored ==
  [][ /\ (ExecStep /\ IsUnknownTrap(instr))
           => /\ reg[R_PC] = NextAddr
              /\ reg' = reg
              /\ memory' = memory
              /\ input' = input
              /\ buffered' = buffered
              /\ out' = <<>>
              /\ acc' = {}
              /\ running'
              /\ ~aborted'
      /\ (pos = "fetch" /\ pos' = "exec" /\ steps >= 1 /\ IsUnknownTrap(instr))
           => iaddr' = NextAddr
    ]_vars

\* The word behind a TRAP xFF has been fetched as the next instruction,
\* with a key waiting on the console.
C19_Witness ==
  /\ pos = "exec"
  /\ steps >= 2
  /\ IsUnknownTrap(last.instr)
  /\ last.instr % 256 = 255
  /\ iaddr = W16(last.addr + 1)
  /\ input # <<>>
  /\ running

(***************************************************************************)
(* C20.  For a guest that reads KBSR again and again and, each time the    *)
(* value read has bit 15 set, reads KBDR before it reads KBSR again, the   *)
(* values read from KBDR are the characters that arrived on the console,   *)
(* in order, none skipped and none twice: the k-th read of KBDR returns    *)
(* the k-th character, and when a read of KBSR finds bit 15 clear every    *)
(* character that has arrived has been read.  The read of KBDR consumes no *)
(* input and leaves memory[KBSR] as it is.                                 *)
(***************************************************************************)
C20_PollingSeesEveryKey ==
  [][ /\ (ExecStep /\ iaddr = PC_START + 2)
           => /\ reg'[1] = PollChars[reg[3] + 1]
              /\ input' = input
              /\ buffered' = buffered
              /\ Cell(memory', MR_KBSR) = Cell(memory, MR_KBSR)
              /\ Cell(memory', MR_KBSR) = 32768
      /\ (ExecStep /\ iaddr = PC_START /\ reg'[R_R0] < 32768)
           => reg[3] = typed
    ]_vars

====
